---- MODULE Spec2Model ----
(***************************************************************************)
(* A model of oct_converter/readers/e2e.py: the E2E reader of Heidelberg   *)
(* .e2e files.  The module holds                                          *)
(*   - the pure codecs (uint16_to_ufloat16, julian_to_ymd),                *)
(*   - the directory walk of E2E.__init__,                                 *)
(*   - the chunk passes of read_oct_volume, read_fundus_image and          *)
(*     read_all_metadata,                                                  *)
(* and the properties checked of them.                                     *)
(***************************************************************************)
EXTENDS Integers, Sequences, FiniteSets, TLC

VARIABLES
    \* the pure codecs: the argument, the value returned, the position
    arg, out, pcF,
    \* E2E.__init__: the file on disk, the constructor's position, the walk
    disk, ctor, current, directory_stack,
    \* an E2E instance: its fields (self), the running call's local variables
    \* (loc) and position (pc), the chunks found at the candidate offsets of
    \* the file as far as the call has read them (chunks), what the last call
    \* returned or raised (result), and the number of calls made (ncalls)
    self, loc, pc, chunks, result, ncalls

vars == <<arg, out, pcF, disk, ctor, current, directory_stack,
          self, loc, pc, chunks, result, ncalls>>

pureVars == <<arg, out, pcF>>

ctorVars == <<disk, ctor, current, directory_stack>>

e2eVars == <<self, loc, pc, chunks, result, ncalls>>

None == [t |-> "None"]

(***************************************************************************)
(* Helpers on bit strings (sequences of 0/1, first element first char).    *)
(***************************************************************************)
Reverse(s) == [k \in 1..Len(s) |-> s[Len(s) + 1 - k]]

RECURSIVE Pow2(_)
Pow2(k) == IF k = 0 THEN 1 ELSE 2 * Pow2(k - 1)

\* "{0:016b}".format(uint16): 16 characters, most significant bit first
Format016b(n) == [k \in 1..16 |-> (n \div Pow2(16 - k)) % 2]

\* int(s, 2)
RECURSIVE IntBase2(_)
IntBase2(s) ==
    IF Len(s) = 0 THEN 0
    ELSE 2 * IntBase2(SubSeq(s, 1, Len(s) - 1)) + s[Len(s)]

(***************************************************************************)
(* Custom float codec.  A decoded value mantissa_sum * 2^exponent_sum is   *)
(* kept as the pair (1024 * mantissa_sum, exponent_sum): mantissa_sum lies *)
(* in [1, 2), so two values are equal exactly when their pairs are.        *)
(***************************************************************************)
power == 1024

LutSize == 65536

ExponentBias == 63

\* the exponent read without the second reversal of line 670
ufloat16_exponent_unreversed(uint16) ==
    LET bits     == Reverse(Format016b(uint16))
        mantissa == SubSeq(bits, 1, 10)
        exponent == SubSeq(bits, 11, 16)
    IN  [mantissa_sum1024 |-> power + IntBase2(mantissa),
         exponent_sum     |-> IntBase2(exponent) - ExponentBias]

uint16_to_ufloat16(uint16) ==
    LET bits     == Reverse(Format016b(uint16))
        mantissa == SubSeq(bits, 1, 10)
        exponent == Reverse(SubSeq(bits, 11, 16))
    IN  [mantissa_sum1024 |-> power + IntBase2(mantissa),
         exponent_sum     |-> IntBase2(exponent) - ExponentBias]

\* _make_lut: LUT[i] for i in range(0, size)
make_lut(size) == [i \in 0..(size - 1) |-> uint16_to_ufloat16(i)]

(***************************************************************************)
(* Date codec.  Python's int(a / b) truncates toward zero; a % b with a    *)
(* positive b is the floor remainder, as TLA+'s %.                         *)
(***************************************************************************)
\* int(a / b) for b > 0
IntTrunc(a, b) == IF a >= 0 THEN a \div b ELSE -((-a) \div b)

IsLeap(Y) == (Y % 4 = 0 /\ Y % 100 # 0) \/ Y % 400 = 0

DaysInMonth(Y, M) ==
    IF M = 2 THEN (IF IsLeap(Y) THEN 29 ELSE 28)
    ELSE IF M \in {4, 6, 9, 11} THEN 30 ELSE 31

MINYEAR == 1

MAXYEAR == 9999

\* datetime.date(Y, M, D): a date, or ValueError when out of range
date(Y, M, D) ==
    IF /\ Y >= MINYEAR /\ Y <= MAXYEAR
       /\ M >= 1 /\ M <= 12
       /\ D >= 1 /\ D <= DaysInMonth(Y, M)
    THEN [t |-> "date", Y |-> Y, M |-> M, D |-> D]
    ELSE [t |-> "ValueError"]

\* julian_to_ymd with the constant C off by one
julian_to_ymd_wrong_C(J) ==
    LET f == J + 1401 + IntTrunc(IntTrunc(4 * J + 274277, 146097) * 3, 4) - 37
        e == 4 * f + 3
        g == IntTrunc(e % 1461, 4)
        h == 5 * g + 2
        D == IntTrunc(h % 153, 5) + 1
        M == ((IntTrunc(h, 153) + 2) % 12) + 1
        Y == IntTrunc(e, 1461) - 4716 + IntTrunc(12 + 2 - M, 12)
    IN  date(Y, M, D)

julian_to_ymd(J) ==
    LET y == 4716
        j == 1401
        m == 2
        n == 12
        r == 4
        p == 1461
        v == 3
        u == 5
        s == 153
        w == 2
        B == 274277
        C == -38
        f == J + j + IntTrunc(IntTrunc(4 * J + B, 146097) * 3, 4) + C
        e == r * f + v
        g == IntTrunc(e % p, r)
        h == u * g + w
        D == IntTrunc(h % s, u) + 1
        M == ((IntTrunc(h, s) + m) % n) + 1
        Y == IntTrunc(e, p) - y + IntTrunc(n + m - M, n)
    IN  date(Y, M, D)

(***************************************************************************)
(* E2E.__init__.  Offsets are taken relative to byte_skip.  The file on    *)
(* disk holds a header and a first main-directory record (parseable or     *)
(* not), whose `current` starts the walk, and main-directory records at    *)
(* the offsets 1..MaxDirs, each with a `prev`; at most one of them is      *)
(* truncated or unparseable (disk.bad, 0 for none).                        *)
(***************************************************************************)
MaxDirs == 3

Offsets == 1..MaxDirs

\* the walk of a cyclic chain never ends: the model stops it here
MaxWalk == MaxDirs + 2

Disks ==
    [exists : {TRUE}, first_ok : BOOLEAN, current : 0..MaxDirs,
     prev : [Offsets -> 0..MaxDirs], bad : 0..MaxDirs]
    \cup
    [exists : {FALSE}, first_ok : {FALSE}, current : {0},
     prev : {[o \in Offsets |-> 0]}, bad : {0}]

\* f.seek(current); raw = f.read(52); main_directory_structure.parse(raw)
main_directory_structure_parse(pos) ==
    IF pos = disk.bad THEN [t |-> "StreamError"]
    ELSE [t |-> "ok", prev |-> disk.prev[pos]]

\* the loop body with the offset that is appended taken after the move
walk_body_append_prev(stack, cur) ==
    LET directory_chunk == main_directory_structure_parse(cur)
    IN  IF directory_chunk.t = "StreamError"
        THEN [stack |-> stack, current |-> cur, raised |-> TRUE]
        ELSE [stack |-> Append(stack, directory_chunk.prev),
              current |-> directory_chunk.prev, raised |-> FALSE]

\* one iteration of `while current != 0`
walk_body(stack, cur) ==
    LET directory_chunk == main_directory_structure_parse(cur)
    IN  IF directory_chunk.t = "StreamError"
        THEN [stack |-> Append(stack, cur), current |-> cur, raised |-> TRUE]
        ELSE [stack |-> Append(stack, cur),
              current |-> directory_chunk.prev, raised |-> FALSE]

InitCtor ==
    /\ disk \in Disks
    /\ ctor = "start"
    /\ current = 0
    /\ directory_stack = <<>>

\* lines 29-59: the existence test, the header, the first record
Open ==
    /\ ctor = "start"
    /\ ctor' = IF ~disk.exists THEN "FileNotFoundError"
               ELSE IF ~disk.first_ok THEN "StreamError"
               ELSE "walk"
    /\ current' = IF disk.exists /\ disk.first_ok THEN disk.current ELSE current
    /\ UNCHANGED <<disk, directory_stack>>

\* lines 60-65
WalkStep ==
    /\ ctor = "walk"
    /\ current # 0
    /\ Len(directory_stack) < MaxWalk
    /\ LET b == walk_body(directory_stack, current)
       IN  /\ directory_stack' = b.stack
           /\ current' = b.current
           /\ ctor' = IF b.raised THEN "StreamError" ELSE "walk"
    /\ UNCHANGED disk

\* the loop condition fails: __init__ returns
WalkEnd ==
    /\ ctor = "walk"
    /\ current = 0
    /\ ctor' = "done"
    /\ UNCHANGED <<disk, current, directory_stack>>

PureIdle == arg = 0 /\ out = None /\ pcF = "idle"

\* no instance: the specifications of the constructor and of the codecs
E2EIdle ==
    /\ self = None
    /\ loc = None
    /\ pc = "none"
    /\ chunks = <<>>
    /\ result = None
    /\ ncalls = 0

NextWalk ==
    \/ Open /\ UNCHANGED <<pureVars, e2eVars>>
    \/ WalkStep /\ UNCHANGED <<pureVars, e2eVars>>
    \/ WalkEnd /\ UNCHANGED <<pureVars, e2eVars>>

InitWalk == InitCtor /\ PureIdle /\ E2EIdle

SpecWalk == InitWalk /\ [][NextWalk]_vars

(***************************************************************************)
(* The pure codecs, each applied to an argument drawn from a bounded set.  *)
(***************************************************************************)
CtorIdle ==
    /\ disk = [exists |-> FALSE, first_ok |-> FALSE, current |-> 0,
               prev |-> [o \in Offsets |-> 0], bad |-> 0]
    /\ ctor = "idle"
    /\ current = 0
    /\ directory_stack = <<>>

\* LUT[raw_volume], one pixel
DecodePixel ==
    /\ pcF = "call"
    /\ out' = make_lut(LutSize)[arg]
    /\ pcF' = "done"
    /\ UNCHANGED <<arg, ctorVars, e2eVars>>

InitLUT == arg \in 0..(LutSize - 1) /\ out = None /\ pcF = "call" /\ CtorIdle /\ E2EIdle

SpecLUT == InitLUT /\ [][DecodePixel]_vars

\* Julian days around: the epoch, the day 4J + B changes sign, 0001-01-01,
\* 1900-01-01, 2000-01-01 and 9999-12-31
JulianAnchors == {0, -68569, 1721426, 2415021, 2451545, 5373484}

JulianWindow == 400

JulianDays ==
    UNION {(a - JulianWindow)..(a + JulianWindow) : a \in JulianAnchors}

ConvertDate ==
    /\ pcF = "call"
    /\ out' = julian_to_ymd(arg)
    /\ pcF' = "done"
    /\ UNCHANGED <<arg, ctorVars, e2eVars>>

InitDate == arg \in JulianDays /\ out = None /\ pcF = "call" /\ CtorIdle /\ E2EIdle

SpecDate == InitDate /\ [][ConvertDate]_vars

(***************************************************************************)
(* Python values.  A dict is the sequence of its items in insertion order; *)
(* a list is a sequence, indexed from 0 and from the end by negative       *)
(* indices.                                                                *)
(***************************************************************************)
DictKeys(d) == {d[k].key : k \in DOMAIN d}

DictHas(d, key) == key \in DictKeys(d)

DictGet(d, key) == d[CHOOSE k \in DOMAIN d : d[k].key = key].val

\* d[key] = val
DictSet(d, key, val) ==
    IF DictHas(d, key)
    THEN [k \in DOMAIN d |->
            IF d[k].key = key THEN [key |-> key, val |-> val] ELSE d[k]]
    ELSE Append(d, [key |-> key, val |-> val])

\* d.get(key)
DictGetOrNone(d, key) == IF DictHas(d, key) THEN DictGet(d, key) ELSE None

\* lst[idx] = val: the list, or IndexError
ListSetItem(lst, idx, val) ==
    LET k == IF idx >= 0 THEN idx + 1 ELSE Len(lst) + idx + 1
    IN  IF k >= 1 /\ k <= Len(lst)
        THEN [t |-> "ok", list |-> [lst EXCEPT ![k] = val]]
        ELSE [t |-> "IndexError"]

\* [x] * n
Repeat(x, n) == [k \in 1..n |-> x]

\* len(str(n)) for n >= 0
RECURSIVE StrLen(_)
StrLen(n) == IF n < 10 THEN 1 ELSE 1 + StrLen(n \div 10)

(***************************************************************************)
(* The file after construction.  A directory entry is a sub_directory      *)
(* record; the chunk at a candidate offset is its 60-byte header (hdr_ok:  *)
(* whether chunk_structure.parse accepts it) and its payload as the        *)
(* type's structure parses it (t = "StreamError" when it does not).        *)
(***************************************************************************)
PATIENT == 9

BSCAN == 10004

PREAMBLE == 3

CONTOUR == 10019

IMAGE == 1073741824

MaxSeries == 2

MaxSliceId == 2

\* directory entries in the file, hence at most so many candidate chunks
MaxEntries == 3

SeriesIds == 1..MaxSeries

SliceIds == 0..MaxSliceId

\* "{}_{}_{}".format(chunk.patient_db_id, chunk.study_id, chunk.series_id)
volume_string_of(chunk) ==
    ToString(chunk.patient_db_id) \o "_" \o ToString(chunk.study_id)
        \o "_" \o ToString(chunk.series_id)

Entry(series_id, slice_id, start, pos) ==
    [patient_db_id |-> 1, study_id |-> 1, series_id |-> series_id,
     slice_id |-> slice_id, start |-> start, pos |-> pos]

Chunk(type, series_id, slice_id, ind, payload) ==
    [hdr_ok |-> TRUE, type |-> type, patient_db_id |-> 1, study_id |-> 1,
     series_id |-> series_id, slice_id |-> slice_id, ind |-> ind,
     payload |-> payload]

\* a header chunk_structure.parse raises on
BadHeader ==
    [hdr_ok |-> FALSE, type |-> 0, patient_db_id |-> 0, study_id |-> 0,
     series_id |-> 0, slice_id |-> 0, ind |-> 0, payload |-> None]

StreamError == [t |-> "StreamError"]

\* image_structure, and whether the pixel buffer that follows it holds
\* height * width elements
ImagePayload(height, width, full) ==
    [t |-> "image", height |-> height, width |-> width, full |-> full]

\* patient_id_structure: the identity fields are those of patient p
PatientPayload(p, birthdate) ==
    [t |-> "patient", sex |-> [t |-> "sex", p |-> p],
     first_name |-> [t |-> "first_name", p |-> p],
     surname |-> [t |-> "surname", p |-> p],
     patient_id |-> [t |-> "patient_id", p |-> p],
     birthdate |-> birthdate]

BscanPayload(acquisitionTime, scaley) ==
    [t |-> "bscan", acquisitionTime |-> acquisitionTime, scaley |-> scaley]

PrePayload(laterality) == [t |-> "pre_data", laterality |-> laterality]

\* contour_structure, and whether the width * 4 bytes after it are readable
ContourPayload(id, width, readable) ==
    [t |-> "contour", id |-> id, width |-> width, readable |-> readable]

(***************************************************************************)
(* The instance after construction, and a call's fresh local variables.    *)
(***************************************************************************)
NewSelf ==
    [sex |-> None, first_name |-> None, surname |-> None,
     acquisition_date |-> None, birthdate |-> None, pixel_spacing |-> None,
     patient_id |-> None]

NewMetadata ==
    [image_data |-> <<>>, bscan_data |-> <<>>, patient_data |-> <<>>,
     laterality_data |-> <<>>, contour_data |-> <<>>, fundus_data |-> <<>>,
     device_data |-> <<>>, examined_structure |-> <<>>, scan_pattern |-> <<>>,
     enface_modality |-> <<>>, oct_modality |-> <<>>, localizer |-> <<>>,
     eye_data |-> <<>>, uid_data |-> <<>>, time_data |-> <<>>,
     additional_device_data |-> <<>>]

NewLoc(call, args) ==
    [call |-> call, args |-> args, entries |-> 0, chunk_stack |-> <<>>,
     volume_dict |-> <<>>, volume_array_dict |-> <<>>,
     volume_array_dict_additional |-> <<>>, laterality_dict |-> <<>>,
     laterality |-> None, contour_dict |-> <<>>, image_array_dict |-> <<>>,
     metadata |-> NewMetadata, i |-> 0]

\* the placeholder 0 of [0] * n, the only int a volume list holds
Placeholder == [t |-> "int"]

(***************************************************************************)
(* The directory pass, lines 96-113 (and 348-357, 490-499): one entry.     *)
(* volume_dict holds slice_id / 2, a float: the model keeps twice the      *)
(* value, the slice_id itself.                                             *)
(***************************************************************************)
dir_entry(l, chunk) ==
    LET volume_string == volume_string_of(chunk)
        vd == IF l.call # "oct" THEN l.volume_dict
              ELSE IF ~DictHas(l.volume_dict, volume_string)
              THEN DictSet(l.volume_dict, volume_string, chunk.slice_id)
              ELSE IF chunk.slice_id > DictGet(l.volume_dict, volume_string)
              THEN DictSet(l.volume_dict, volume_string, chunk.slice_id)
              ELSE l.volume_dict
        cs == IF chunk.start > chunk.pos
              THEN Append(l.chunk_stack, Len(l.chunk_stack) + 1)
              ELSE l.chunk_stack
    IN  [l EXCEPT !.volume_dict = vd, !.chunk_stack = cs,
                  !.entries = l.entries + 1]

\* lines 122-125: volume_array_dict[volume] = [0] * int(num_slices + 1)
alloc_volumes(volume_dict) ==
    LET keep == SelectSeq(volume_dict, LAMBDA it : it.val > 0)
    IN  [k \in DOMAIN keep |->
            [key |-> keep[k].key,
             val |-> Repeat(Placeholder, IntTrunc(keep[k].val + 2, 2))]]

(***************************************************************************)
(* The chunk handlers.  A handler maps the state st = [self, loc, flow]    *)
(* and the chunk read at candidate `at` to the state after the loop body:  *)
(* flow is "next" (the loop goes on), "break", or the exception that       *)
(* leaves the call.                                                        *)
(***************************************************************************)
Str(x) == [t |-> "str", s |-> x]

\* patient_data.birthdate / 64 - 14558805; the birthdates of the model are
\* multiples of 64, for which the float quotient is this integer
julian_birthdate(birthdate) == (birthdate \div 64) - 14558805

\* the image decoded from the pixels of the chunk at candidate `at`
ImageOf(at) == [t |-> "image", at |-> at]

ContourOf(at) == [t |-> "contour", at |-> at]

\* lines 141-169
oct_patient(st, chunk) ==
    LET patient_data == chunk.payload
        birthdate ==
            IF StrLen(patient_data.birthdate) = 8
            THEN Str(ToString(patient_data.birthdate))
            ELSE LET d == julian_to_ymd(julian_birthdate(patient_data.birthdate))
                 IN  IF d.t = "ValueError" THEN None ELSE d
    IN  IF patient_data.t = "StreamError" THEN st
        ELSE [st EXCEPT !.self.sex = patient_data.sex,
                        !.self.first_name = patient_data.first_name,
                        !.self.surname = patient_data.surname,
                        !.self.patient_id = patient_data.patient_id,
                        !.self.birthdate = birthdate]

\* lines 376-387
fundus_patient(st, chunk) ==
    LET patient_data == chunk.payload
        d == julian_to_ymd(julian_birthdate(patient_data.birthdate))
        named == [st EXCEPT !.self.sex = patient_data.sex,
                            !.self.first_name = patient_data.first_name,
                            !.self.surname = patient_data.surname]
    IN  IF patient_data.t = "StreamError" THEN st
        ELSE IF d.t = "ValueError" THEN named
        ELSE [named EXCEPT !.self.birthdate = d,
                           !.self.patient_id = patient_data.patient_id]

\* lines 171-192
oct_bscan(st, chunk) ==
    LET bscan_metadata == chunk.payload
        dt_time == [t |-> "datetime", ticks |-> bscan_metadata.acquisitionTime]
        spacing == <<st.loc.args.scalex, bscan_metadata.scaley,
                     st.loc.args.slice_thickness>>
    IN  IF bscan_metadata.t = "StreamError"
        THEN [st EXCEPT !.flow = "StreamError"]
        ELSE [st EXCEPT
                !.self.acquisition_date =
                    IF @ = None THEN dt_time ELSE @,
                !.self.pixel_spacing =
                    IF @ = None THEN [t |-> "list", v |-> spacing] ELSE @]

\* lines 194-206 and 389-401
scan_preamble(st, chunk) ==
    LET pre_data == chunk.payload
        laterality ==
            IF pre_data.t = "StreamError" THEN None
            ELSE IF pre_data.laterality \in {"R", "L"}
            THEN Str(pre_data.laterality)
            ELSE st.loc.laterality
        volume_string == volume_string_of(chunk)
    IN  [st EXCEPT
            !.loc.laterality = laterality,
            !.loc.laterality_dict =
                IF laterality # None /\ ~DictHas(@, volume_string)
                THEN DictSet(@, volume_string, laterality) ELSE @]

\* lines 208-238
oct_contour(st, chunk, at) ==
    LET contour_data == chunk.payload
        volume_string == volume_string_of(chunk)
        slice_id == IntTrunc(chunk.slice_id, 2)
        contour_name == "contour" \o ToString(contour_data.id)
        cd == st.loc.contour_dict
        byname == IF DictHas(cd, volume_string)
                  THEN DictGet(cd, volume_string) ELSE <<>>
        byslice == IF DictHas(byname, contour_name)
                   THEN DictGet(byname, contour_name) ELSE <<>>
    IN  IF contour_data.t = "StreamError"
        THEN [st EXCEPT !.flow = "StreamError"]
        ELSE IF contour_data.width > 0 /\ contour_data.readable
        THEN [st EXCEPT !.loc.contour_dict =
                DictSet(cd, volume_string,
                    DictSet(byname, contour_name,
                        DictSet(byslice, slice_id, ContourOf(at))))]
        ELSE st

\* line 247 (and 408): break
zero_count(st) == [st EXCEPT !.flow = "break"]

\* lines 272-285
store_slice(st, volume_string, slice_id, image) ==
    LET vad == st.loc.volume_array_dict
        add == st.loc.volume_array_dict_additional
    IN  IF DictHas(vad, volume_string)
        THEN LET set == ListSetItem(DictGet(vad, volume_string),
                                    IntTrunc(slice_id, 2), image)
             IN  IF set.t = "IndexError"
                 THEN [st EXCEPT !.flow = "IndexError"]
                 ELSE [st EXCEPT !.loc.volume_array_dict =
                                    DictSet(vad, volume_string, set.list)]
        ELSE IF DictHas(add, volume_string)
        THEN [st EXCEPT !.loc.volume_array_dict_additional =
                DictSet(add, volume_string,
                        Append(DictGet(add, volume_string), image))]
        ELSE [st EXCEPT !.loc.volume_array_dict_additional =
                DictSet(add, volume_string, <<image>>)]

\* lines 240-285
oct_image(st, chunk, at) ==
    LET image_data == chunk.payload
        count == image_data.height * image_data.width
    IN  IF image_data.t = "StreamError"
        THEN [st EXCEPT !.flow = "StreamError"]
        ELSE IF chunk.ind # 1 THEN st
        ELSE IF count = 0 THEN zero_count(st)
        ELSE IF ~image_data.full THEN st
        ELSE store_slice(st, volume_string_of(chunk), chunk.slice_id,
                         ImageOf(at))

\* the loop body with chunk_structure.parse outside the try of lines 133-139
oct_chunk_header_unguarded(st, chunk, at) ==
    IF ~chunk.hdr_ok THEN [st EXCEPT !.flow = "StreamError"]
    ELSE IF chunk.type = PATIENT THEN oct_patient(st, chunk)
    ELSE IF chunk.type = IMAGE THEN oct_image(st, chunk, at)
    ELSE st

\* lines 129-285: the body of `for start, pos in chunk_stack`
oct_chunk(st, chunk, at) ==
    IF ~chunk.hdr_ok THEN st
    ELSE IF chunk.type = PATIENT THEN oct_patient(st, chunk)
    ELSE IF chunk.type = BSCAN THEN oct_bscan(st, chunk)
    ELSE IF chunk.type = PREAMBLE THEN scan_preamble(st, chunk)
    ELSE IF chunk.type = CONTOUR THEN oct_contour(st, chunk, at)
    ELSE IF chunk.type = IMAGE THEN oct_image(st, chunk, at)
    ELSE st

\* lines 418-426: the key a repeated image is stored under
RECURSIVE free_image_string(_, _)
free_image_string(image_string, image_array_dict) ==
    LET next == image_string \o "_"
    IN  IF ~DictHas(image_array_dict, next) THEN next
        ELSE free_image_string(next, image_array_dict)

\* lines 415-428
store_fundus(st, image_string, image) ==
    LET iad == st.loc.image_array_dict
        key == IF DictHas(iad, image_string) /\ st.loc.args.extract_scan_repeats
               THEN free_image_string(image_string, iad)
               ELSE image_string
    IN  [st EXCEPT !.loc.image_array_dict = DictSet(iad, key, image)]

\* lines 403-428
fundus_image(st, chunk, at) ==
    LET image_data == chunk.payload
        count == image_data.height * image_data.width
    IN  IF image_data.t = "StreamError"
        THEN [st EXCEPT !.flow = "StreamError"]
        ELSE IF count = 0 THEN zero_count(st)
        ELSE IF chunk.ind # 0 THEN st
        ELSE IF ~image_data.full THEN [st EXCEPT !.flow = "ValueError"]
        ELSE store_fundus(st, volume_string_of(chunk), ImageOf(at))

\* lines 364-428
fundus_chunk(st, chunk, at) ==
    IF ~chunk.hdr_ok THEN st
    ELSE IF chunk.type = PATIENT THEN fundus_patient(st, chunk)
    ELSE IF chunk.type = PREAMBLE THEN scan_preamble(st, chunk)
    ELSE IF chunk.type = IMAGE THEN fundus_image(st, chunk, at)
    ELSE st

(***************************************************************************)
(* read_all_metadata.  The entry a chunk adds is the dict of the fields    *)
(* parsed from the chunk at candidate `at`.                                *)
(***************************************************************************)
FieldsOf(at) == [t |-> "fields", at |-> at]

TextOf(at) == [t |-> "text", at |-> at]

\* the branches of lines 517-625 in order: the type's category, or "" for
\* a type no branch takes.  The second branch for 1073741824 (line 547) is
\* never reached
meta_category(type) ==
    IF type = PATIENT THEN "patient_data"
    ELSE IF type = BSCAN THEN "bscan_data"
    ELSE IF type = IMAGE THEN "fundus_data"
    ELSE IF type = 11 THEN "laterality_data"
    ELSE IF type = CONTOUR THEN "contour_data"
    ELSE IF type = 9001 THEN "device_data"
    ELSE IF type = 9005 THEN "examined_structure"
    ELSE IF type = 9006 THEN "scan_pattern"
    ELSE IF type = 9007 THEN "enface_modality"
    ELSE IF type = 9008 THEN "oct_modality"
    ELSE IF type = 10025 THEN "localizer"
    ELSE IF type = 7 THEN "eye_data"
    ELSE IF type = 39 THEN "time_data"
    ELSE IF type \in {52, 54, 1000, 1001} THEN "uid_data"
    ELSE IF type \in {1005, 1006, 1007} THEN "additional_device_data"
    ELSE ""

\* the branches whose parse sits in a try (lines 519-523, 594-609)
meta_guarded(type) == type \in {PATIENT, 39, 52, 54, 1000, 1001}

\* the categories kept per series key, first occurrence first
meta_per_key(type) == type \in {9005, 9006, 9007, 9008}

\* lines 502-625: the body of `for start, pos in chunk_stack`
meta_chunk(st, chunk, at) ==
    LET image_string == volume_string_of(chunk)
        category == meta_category(chunk.type)
        md == st.loc.metadata
        entry == IF chunk.type \in {52, 54, 1000, 1001, 1005, 1006, 1007}
                 THEN [t |-> "typed", type |-> chunk.type, at |-> at]
                 ELSE FieldsOf(at)
    IN  IF ~chunk.hdr_ok THEN st
        ELSE IF category = "" THEN st
        ELSE IF chunk.payload.t = "StreamError"
        THEN (IF meta_guarded(chunk.type) THEN st
              ELSE [st EXCEPT !.flow = "StreamError"])
        ELSE IF meta_per_key(chunk.type)
        THEN (IF DictHas(md[category], image_string) THEN st
              ELSE [st EXCEPT !.loc.metadata =
                      [md EXCEPT ![category] =
                          DictSet(@, image_string, TextOf(at))]])
        ELSE [st EXCEPT !.loc.metadata =
                [md EXCEPT ![category] = Append(@, entry)]]

\* the whole pass of read_all_metadata over the candidates from `at` on, as
\* read_oct_volume and read_fundus_image call it (lines 302, 431)
RECURSIVE meta_pass(_, _, _)
meta_pass(st, cs, at) ==
    IF at > Len(cs) \/ st.flow # "next" THEN st
    ELSE meta_pass(meta_chunk(st, cs[at], at), cs, at + 1)

read_all_metadata_of(cs) ==
    meta_pass([self |-> NewSelf, loc |-> NewLoc("meta", None), flow |-> "next"],
              cs, 1)

(***************************************************************************)
(* What the calls return.                                                  *)
(***************************************************************************)
\* lines 297-299 for one contour: the list, or IndexError
RECURSIVE place_contours(_, _, _)
place_contours(lst, values, k) ==
    IF lst.t = "IndexError" \/ k > Len(values) THEN lst
    ELSE place_contours(ListSetItem(lst.list, values[k].key, values[k].val),
                        values, k + 1)

\* lines 293-299 for one volume_id: a dict by contour name, or IndexError
RECURSIVE assemble_names(_, _, _, _)
assemble_names(acc, contours, num_slices, k) ==
    IF acc.t = "IndexError" \/ k > Len(contours) THEN acc
    ELSE LET v == contours[k].val
             n == IF num_slices # 0 THEN num_slices ELSE Len(v)
             placed == place_contours([t |-> "ok", list |-> Repeat(None, n)],
                                      v, 1)
         IN  IF placed.t = "IndexError" THEN placed
             ELSE assemble_names(
                    [t |-> "ok",
                     dict |-> DictSet(acc.dict, contours[k].key, placed.list)],
                    contours, num_slices, k + 1)

\* lines 287-299: contour_data, or IndexError
RECURSIVE assemble_contours(_, _, _, _)
assemble_contours(acc, contour_dict, volume_dict, k) ==
    IF acc.t = "IndexError" \/ k > Len(contour_dict) THEN acc
    ELSE LET volume_id == contour_dict[k].key
             num_slices == IF DictHas(volume_dict, volume_id)
                           THEN IntTrunc(DictGet(volume_dict, volume_id), 2) + 1
                           ELSE 0
             names == assemble_names([t |-> "ok", dict |-> <<>>],
                                     contour_dict[k].val, num_slices, 1)
         IN  IF names.t = "IndexError" THEN names
             ELSE assemble_contours(
                    [t |-> "ok", dict |-> DictSet(acc.dict, volume_id, names.dict)],
                    contour_dict, volume_dict, k + 1)

\* line 309: the slices that are not the int placeholder
decoded_slices(volume) == SelectSeq(volume, LAMBDA slc : slc.t # "int")

\* lines 304-327
oct_volumes_of(s, l, contour_data, metadata) ==
    LET items == l.volume_array_dict \o l.volume_array_dict_additional
        kept == SelectSeq(items, LAMBDA it : Len(decoded_slices(it.val)) # 0)
    IN  [k \in DOMAIN kept |->
            [volume |-> decoded_slices(kept[k].val),
             patient_id |-> s.patient_id,
             first_name |-> s.first_name,
             surname |-> s.surname,
             sex |-> s.sex,
             patient_dob |-> s.birthdate,
             acquisition_date |-> s.acquisition_date,
             volume_id |-> kept[k].key,
             laterality |-> DictGetOrNone(l.laterality_dict, kept[k].key),
             contours |-> DictGetOrNone(contour_data, kept[k].key),
             pixel_spacing |-> s.pixel_spacing,
             metadata |-> metadata]]

\* lines 433-446
fundus_images_of(s, l, metadata) ==
    [k \in DOMAIN l.image_array_dict |->
        [image |-> l.image_array_dict[k].val,
         patient_id |-> s.patient_id,
         image_id |-> l.image_array_dict[k].key,
         laterality |-> DictGetOrNone(l.laterality_dict,
                                      l.image_array_dict[k].key),
         metadata |-> metadata,
         pixel_spacing |-> <<l.args.scalex, l.args.scalex>>]]

\* lines 287-329, 430-448, 627: the value returned, or the exception
return_of(s, l, cs) ==
    LET contour_data == assemble_contours([t |-> "ok", dict |-> <<>>],
                                          l.contour_dict, l.volume_dict, 1)
        meta == read_all_metadata_of(cs)
    IN  IF l.call = "meta" THEN [t |-> "returned", value |-> l.metadata]
        ELSE IF l.call = "oct" /\ contour_data.t = "IndexError"
        THEN [t |-> "raised", exc |-> "IndexError"]
        ELSE IF meta.flow # "next"
        THEN [t |-> "raised", exc |-> meta.flow]
        ELSE IF l.call = "oct"
        THEN [t |-> "returned",
              value |-> oct_volumes_of(s, l, contour_data.dict, meta.loc.metadata)]
        ELSE [t |-> "returned",
              value |-> fundus_images_of(s, l, meta.loc.metadata)]

(***************************************************************************)
(* The calls as steps.  A call reads the directory entries one by one,     *)
(* then the candidate chunks one by one, then returns.  The chunk found at *)
(* a candidate offset is drawn when the call first reads it; when the loop *)
(* is left by `break` the chunks it never reads are drawn with it, so that *)
(* `chunks` is the file's whole candidate list when the call returns.      *)
(***************************************************************************)
OctArgs(scalex, slice_thickness) ==
    [legacy_intensity_transform |-> FALSE, scalex |-> scalex,
     slice_thickness |-> slice_thickness]

FundusArgs(extract_scan_repeats, scalex) ==
    [extract_scan_repeats |-> extract_scan_repeats, scalex |-> scalex]

handle(st, chunk, at) ==
    IF st.loc.call = "oct" THEN oct_chunk(st, chunk, at)
    ELSE IF st.loc.call = "fundus" THEN fundus_chunk(st, chunk, at)
    ELSE meta_chunk(st, chunk, at)

\* the sequences of length n over S
SeqsOfLen(S, n) == [1..n -> S]

\* a call is made on the instance: Calls is a set of [call, args]
StartCall(Calls, limit) ==
    /\ pc = "idle"
    /\ ncalls < limit
    /\ \E c \in Calls :
        /\ loc' = NewLoc(c.call, c.args)
    /\ pc' = "dir"
    /\ chunks' = <<>>
    /\ result' = None
    /\ ncalls' = ncalls + 1
    /\ UNCHANGED self

\* lines 96-113, 348-357, 490-499: the next directory entry is read
DirEntry(Entries) ==
    /\ pc = "dir"
    /\ loc.entries < MaxEntries
    /\ \E e \in Entries : loc' = dir_entry(loc, e)
    /\ UNCHANGED <<self, pc, chunks, result, ncalls>>

\* lines 115-127, 359-362: the directory is read, the dicts are set up
EndDir ==
    /\ pc = "dir"
    /\ pc' = "scan"
    /\ loc' = IF loc.call = "oct"
              THEN [loc EXCEPT !.volume_array_dict = alloc_volumes(loc.volume_dict)]
              ELSE loc
    /\ UNCHANGED <<self, chunks, result, ncalls>>

\* one iteration of `for start, pos in chunk_stack`
Scan(Alphabet) ==
    /\ pc = "scan"
    /\ loc.i < Len(loc.chunk_stack)
    /\ \E chunk \in Alphabet :
        LET at == loc.i + 1
            st == handle([self |-> self, loc |-> loc, flow |-> "next"], chunk, at)
        IN  /\ self' = st.self
            /\ loc' = [st.loc EXCEPT !.i = at]
            /\ IF st.flow = "next"
               THEN /\ chunks' = Append(chunks, chunk)
                    /\ UNCHANGED <<pc, result>>
               ELSE IF st.flow = "break"
               THEN /\ \E rest \in SeqsOfLen(Alphabet, Len(loc.chunk_stack) - at) :
                        chunks' = Append(chunks, chunk) \o rest
                    /\ pc' = "finish"
                    /\ UNCHANGED result
               ELSE /\ chunks' = Append(chunks, chunk)
                    /\ pc' = "idle"
                    /\ result' = [t |-> "raised", exc |-> st.flow]
    /\ UNCHANGED ncalls

\* the loop is over: lines 287-329, 430-448, 627
Return ==
    /\ \/ pc = "scan" /\ loc.i = Len(loc.chunk_stack)
       \/ pc = "finish"
    /\ result' = return_of(self, loc, chunks)
    /\ pc' = "idle"
    /\ UNCHANGED <<self, loc, chunks, ncalls>>

InitE2E ==
    /\ self = NewSelf
    /\ loc = NewLoc("none", None)
    /\ pc = "idle"
    /\ chunks = <<>>
    /\ result = None
    /\ ncalls = 0

\* the constructor has returned: one main directory
CtorDone ==
    /\ disk = [exists |-> TRUE, first_ok |-> TRUE, current |-> 1,
               prev |-> [o \in Offsets |-> 0], bad |-> 0]
    /\ ctor = "done"
    /\ current = 0
    /\ directory_stack = <<1>>

(***************************************************************************)
(* Spec: one call, of any of the three entry points, on a file of image    *)
(* chunks, chunks of a type no branch takes, and unparseable headers.      *)
(***************************************************************************)
UNKNOWN == 5

ImageEntries ==
    {Entry(s, sl, 1, pos) : s \in SeriesIds, sl \in SliceIds, pos \in {0, 1}}

ImageChunks ==
    {BadHeader, Chunk(UNKNOWN, 1, 0, 0, None)}
    \cup {Chunk(IMAGE, s, sl, 1, ImagePayload(2, 2, TRUE)) :
            s \in SeriesIds, sl \in SliceIds}
    \cup {Chunk(IMAGE, s, 0, 0, ImagePayload(2, 2, TRUE)) : s \in SeriesIds}
    \cup {Chunk(IMAGE, 1, 0, ind, ImagePayload(0, 2, TRUE)) : ind \in {0, 1}}
    \cup {Chunk(IMAGE, 1, 0, ind, ImagePayload(2, 2, FALSE)) : ind \in {0, 1}}

ImageCalls ==
    {[call |-> "oct", args |-> OctArgs(1, 5)], [call |-> "meta", args |-> None]}
    \cup {[call |-> "fundus", args |-> FundusArgs(b, 1)] : b \in BOOLEAN}

Init == PureIdle /\ CtorDone /\ InitE2E

Next ==
    \/ StartCall(ImageCalls, 1) /\ UNCHANGED <<pureVars, ctorVars>>
    \/ DirEntry(ImageEntries) /\ UNCHANGED <<pureVars, ctorVars>>
    \/ EndDir /\ UNCHANGED <<pureVars, ctorVars>>
    \/ Scan(ImageChunks) /\ UNCHANGED <<pureVars, ctorVars>>
    \/ Return /\ UNCHANGED <<pureVars, ctorVars>>

Spec == Init /\ [][Next]_vars

(***************************************************************************)
(* SpecHeader: one call, of any of the three entry points, on a file       *)
(* whose candidates are unparseable headers or well-formed chunks each     *)
(* pass can use.                                                           *)
(***************************************************************************)
HeaderEntries == {Entry(1, 2, 1, pos) : pos \in {0, 1}}

HeaderChunks ==
    {BadHeader,
     Chunk(IMAGE, 1, 0, 1, ImagePayload(2, 2, TRUE)),
     Chunk(IMAGE, 1, 2, 1, ImagePayload(2, 2, TRUE)),
     Chunk(IMAGE, 1, 0, 0, ImagePayload(2, 2, TRUE)),
     Chunk(PATIENT, 1, 0, 0, PatientPayload(1, 1088662400)),
     Chunk(PATIENT, 1, 0, 0, PatientPayload(2, 19800128))}

HeaderCalls ==
    {[call |-> "oct", args |-> OctArgs(1, 5)],
     [call |-> "meta", args |-> None],
     [call |-> "fundus", args |-> FundusArgs(TRUE, 1)]}

NextHeader ==
    \/ StartCall(HeaderCalls, 1) /\ UNCHANGED <<pureVars, ctorVars>>
    \/ DirEntry(HeaderEntries) /\ UNCHANGED <<pureVars, ctorVars>>
    \/ EndDir /\ UNCHANGED <<pureVars, ctorVars>>
    \/ Scan(HeaderChunks) /\ UNCHANGED <<pureVars, ctorVars>>
    \/ Return /\ UNCHANGED <<pureVars, ctorVars>>

SpecHeader == Init /\ [][NextHeader]_vars

(***************************************************************************)
(* SpecPatient: up to MaxCalls calls of read_oct_volume and                *)
(* read_fundus_image on a file whose candidates are patient chunks.  The   *)
(* birthdates: one that reads as YYYYMMDD, the encoding of Julian day      *)
(* 2451545, and one whose Julian day is no date.                           *)
(***************************************************************************)
MaxCalls == 2

MaxPatients == 2

BirthdateRaws == {19800128, 1088662400, 0}

PatientEntries == {Entry(1, 0, 1, 0)}

PatientChunks ==
    {BadHeader, Chunk(PATIENT, 1, 0, 0, StreamError)}
    \cup {Chunk(PATIENT, 1, 0, 0, PatientPayload(p, b)) :
            p \in 1..MaxPatients, b \in BirthdateRaws}

PatientCalls ==
    {[call |-> "oct", args |-> OctArgs(1, 5)],
     [call |-> "fundus", args |-> FundusArgs(FALSE, 1)]}

NextPatient ==
    \/ StartCall(PatientCalls, MaxCalls) /\ UNCHANGED <<pureVars, ctorVars>>
    \/ DirEntry(PatientEntries) /\ UNCHANGED <<pureVars, ctorVars>>
    \/ EndDir /\ UNCHANGED <<pureVars, ctorVars>>
    \/ Scan(PatientChunks) /\ UNCHANGED <<pureVars, ctorVars>>
    \/ Return /\ UNCHANGED <<pureVars, ctorVars>>

SpecPatient == Init /\ [][NextPatient]_vars

(***************************************************************************)
(* Properties of the directory walk (SpecWalk).                            *)
(***************************************************************************)
\* the offsets reached from o by following prev, up to `fuel` of them
RECURSIVE ChainFrom(_, _)
ChainFrom(o, fuel) ==
    IF o = 0 \/ fuel = 0 THEN <<>>
    ELSE <<o>> \o ChainFrom(disk.prev[o], fuel - 1)

\* following prev from o ends in a record with prev = 0 within `fuel`
\* records, none of them malformed
RECURSIVE ChainEnds(_, _)
ChainEnds(o, fuel) ==
    IF o = 0 THEN TRUE
    ELSE IF fuel = 0 \/ o = disk.bad THEN FALSE
    ELSE ChainEnds(disk.prev[o], fuel - 1)

WellFormedChain ==
    /\ disk.exists
    /\ disk.first_ok
    /\ ChainEnds(disk.current, MaxDirs)

Chain == ChainFrom(disk.current, MaxDirs)

IsPrefix(a, b) == Len(a) <= Len(b) /\ a = SubSeq(b, 1, Len(a))

NoDuplicates(q) == \A a, b \in DOMAIN q : q[a] = q[b] => a = b

\* C4: when the chain from the first record's current pointer has K records
\* and ends in a record with prev = 0, the constructor never fails, every
\* step it takes extends directory_stack along the chain (so it takes at
\* most K steps), it can always take its next step until it has returned,
\* and when it has returned directory_stack is exactly the K offsets of the
\* chain, each once, in the order visited.
C4_WalkVisitsChain ==
    WellFormedChain =>
        /\ ctor \in {"start", "walk", "done"}
        /\ IsPrefix(directory_stack, Chain)
        /\ NoDuplicates(directory_stack)
        /\ ctor # "done" => ENABLED NextWalk
        /\ ctor = "done" => directory_stack = Chain

\* a chain of MaxDirs records has been walked to its end
C4_Witness ==
    /\ WellFormedChain
    /\ ctor = "done"
    /\ Len(directory_stack) = MaxDirs
    /\ Len(Chain) = MaxDirs

\* C5: construction fails only when the file does not exist; once the walk
\* has started (the header and the first record were read), a malformed
\* main-directory record ends the walk and construction succeeds.
C5_OnlyMissingFileFails ==
    /\ ctor = "FileNotFoundError" => ~disk.exists
    /\ ctor = "StreamError" => ~disk.first_ok

(***************************************************************************)
(* Properties of the custom float codec (SpecLUT).                         *)
(***************************************************************************)
\* the `width`-bit number n with its bits in reverse order
RECURSIVE ReverseBits(_, _)
ReverseBits(n, width) ==
    IF width = 0 THEN 0
    ELSE (n % 2) * Pow2(width - 1) + ReverseBits(n \div 2, width - 1)

\* the first 10 bits of the bit-reversed 16-bit representation of c
FirstTenReversed(c) == ReverseBits(c, 16) \div 64

\* the remaining 6 bits of the bit-reversed representation
LastSixReversed(c) == ReverseBits(c, 16) % 64

\* (1 + m/1024) * 2^(e - 63) as the codec's pair
FloatValue(m, e) == [mantissa_sum1024 |-> 1024 + m, exponent_sum |-> e - 63]

\* C9 as stated: the table entry of c is (1 + m/1024) * 2^(e-63) with m the
\* integer formed by the first 10 bits of the bit-reversed representation of
\* c and e the integer formed by the remaining 6 bits.
C9_AsStated ==
    pcF = "done" => out = FloatValue(FirstTenReversed(arg), LastSixReversed(arg))

\* C9 amended: e is the integer formed by the remaining 6 bits read in the
\* opposite order, which is the top 6 bits of c in their natural order.
C9_TableMatchesFormula ==
    pcF = "done" =>
        /\ out = FloatValue(FirstTenReversed(arg),
                            ReverseBits(LastSixReversed(arg), 6))
        /\ ReverseBits(LastSixReversed(arg), 6) = arg \div 1024

\* code 1024: exponent bits 000001, read 1 by the code and 32 as stated
C9_Witness ==
    /\ pcF = "done"
    /\ arg = 1024
    /\ out = FloatValue(0, 1)
    /\ LastSixReversed(arg) = 32

(***************************************************************************)
(* Properties of the date codec (SpecDate).                                *)
(***************************************************************************)
\* the reference transform: floor division at each step
ReferenceYMD(J) ==
    LET f == J + 1401 + (((4 * J + 274277) \div 146097) * 3) \div 4 - 38
        e == 4 * f + 3
        g == (e % 1461) \div 4
        h == 5 * g + 2
        D == ((h % 153) \div 5) + 1
        M == (((h \div 153) + 2) % 12) + 1
        Y == (e \div 1461) - 4716 + ((12 + 2 - M) \div 12)
    IN  [t |-> "date", Y |-> Y, M |-> M, D |-> D]

\* the calendar day after d, by the Gregorian rules
DayAfter(d) ==
    IF d.D < DaysInMonth(d.Y, d.M) THEN [d EXCEPT !.D = d.D + 1]
    ELSE IF d.M < 12 THEN [d EXCEPT !.M = d.M + 1, !.D = 1]
    ELSE [d EXCEPT !.Y = d.Y + 1, !.M = 1, !.D = 1]

Max(S) == CHOOSE x \in S : \A y \in S : y <= x

Min(S) == CHOOSE x \in S : \A y \in S : x <= y

\* the elements of a finite set of integers in increasing order
RECURSIVE Sorted(_)
Sorted(S) == IF S = {} THEN <<>> ELSE <<Min(S)>> \o Sorted(S \ {Min(S)})

Completed(call) == pc = "idle" /\ loc.call = call /\ result.t = "returned"

\* the loop body the step runs reads a header that does not parse
BadHeaderStep ==
    /\ pc = "scan"
    /\ Len(chunks') > Len(chunks)
    /\ ~chunks'[Len(chunks) + 1].hdr_ok

\* C2 (SpecHeader): in each of the three passes, the loop body run on a
\* candidate whose header fails to parse changes none of the accumulated
\* results (the instance's fields, the call's dicts and lists), raises
\* nothing, and leaves the loop at the next candidate of the list.
C2_BadHeaderSkipped ==
    [][BadHeaderStep =>
        /\ self' = self
        /\ loc' = [loc EXCEPT !.i = loc.i + 1]
        /\ pc' = "scan"
        /\ result' = result
        /\ Len(chunks') = Len(chunks) + 1]_vars

\* read_oct_volume has returned the slices of the chunks read before and
\* after an unparseable header
C2_Witness ==
    /\ Completed("oct")
    /\ Len(chunks) = 3
    /\ ~chunks[2].hdr_ok
    /\ Len(result.value) = 1
    /\ result.value[1].volume = <<ImageOf(1), ImageOf(3)>>

\* an image chunk with pixels that decode
HasImage(c, ind) ==
    /\ c.hdr_ok
    /\ c.type = IMAGE
    /\ c.ind = ind
    /\ c.payload.t = "image"
    /\ c.payload.height * c.payload.width # 0
    /\ c.payload.full

\* the candidates holding the OCT slice `idx` of series key vs
SliceAt(vs, idx) ==
    {a \in DOMAIN chunks :
        /\ HasImage(chunks[a], 1)
        /\ volume_string_of(chunks[a]) = vs
        /\ chunks[a].slice_id \div 2 = idx}

\* one image per slice index from idx up to n - 1, in increasing index order
RECURSIVE SlicesInOrder(_, _, _)
SlicesInOrder(vs, idx, n) ==
    IF idx >= n THEN <<>>
    ELSE (IF SliceAt(vs, idx) = {} THEN <<>>
          ELSE <<ImageOf(Max(SliceAt(vs, idx)))>>)
         \o SlicesInOrder(vs, idx + 1, n)

\* the volume returned for series key vs (none: the empty sequence)
ReturnedVolume(vs) ==
    LET hits == SelectSeq(result.value, LAMBDA v : v.volume_id = vs)
    IN  IF Len(hits) = 0 THEN <<>> ELSE hits[1].volume

\* C1 (Spec): when read_oct_volume returns, the volume of every series key
\* with a placeholder sequence is exactly the images of the file's OCT image
\* chunks of that key, one per slice index, in increasing index order.
C1_VolumeIsSlicesInOrder ==
    Completed("oct") =>
        \A k \in DOMAIN loc.volume_array_dict :
            ReturnedVolume(loc.volume_array_dict[k].key)
                = SlicesInOrder(loc.volume_array_dict[k].key, 0,
                                Len(loc.volume_array_dict[k].val))

\* C3 (Spec): in read_oct_volume and read_fundus_image no chunk makes the
\* loop stop before the last candidate, and no exception leaves the call.
C3_PassNeverAborts ==
    loc.call \in {"oct", "fundus"} =>
        /\ result.t # "raised"
        /\ pc = "finish" => loc.i = Len(loc.chunk_stack)

\* the candidates holding a fundus image of series key vs
FundusAt(vs) ==
    {a \in DOMAIN chunks :
        HasImage(chunks[a], 0) /\ volume_string_of(chunks[a]) = vs}

RECURSIVE Underscored(_, _)
Underscored(vs, k) == IF k = 0 THEN vs ELSE Underscored(vs, k - 1) \o "_"

FundusKeys == {volume_string_of(chunks[a]) : a \in DOMAIN chunks}

ReturnedImages(key) == SelectSeq(result.value, LAMBDA v : v.image_id = key)

\* C6 (Spec): when read_fundus_image returns, for the N fundus image chunks
\* of a series key: with extract_scan_repeats the k-th of them in scan order
\* is returned under the key followed by k-1 underscores; without it the
\* last of them is returned under the key; and nothing else is returned.
C6_FundusRepeats ==
    Completed("fundus") =>
        /\ \A vs \in FundusKeys :
            LET at == Sorted(FundusAt(vs))
            IN  IF loc.args.extract_scan_repeats
                THEN \A k \in DOMAIN at :
                        /\ Len(ReturnedImages(Underscored(vs, k - 1))) = 1
                        /\ ReturnedImages(Underscored(vs, k - 1))[1].image
                              = ImageOf(at[k])
                ELSE Len(at) > 0 =>
                        /\ Len(ReturnedImages(vs)) = 1
                        /\ ReturnedImages(vs)[1].image = ImageOf(at[Len(at)])
        /\ \A k \in DOMAIN result.value :
            \E vs \in FundusKeys, n \in 0..MaxEntries :
                /\ result.value[k].image_id = Underscored(vs, n)
                /\ n < Cardinality(FundusAt(vs))
                /\ ~loc.args.extract_scan_repeats => n = 0

\* the birthdate the policy gives a raw value
BirthdatePolicy(raw) ==
    IF raw >= 10000000 /\ raw <= 99999999 THEN Str(ToString(raw))
    ELSE IF julian_to_ymd((raw \div 64) - 14558805).t = "date"
    THEN julian_to_ymd((raw \div 64) - 14558805)
    ELSE None

IsPatient(c) == c.hdr_ok /\ c.type = PATIENT /\ c.payload.t = "patient"

\* C7 (SpecPatient): right after a pass has decoded a patient chunk, the
\* birthdate is the 8-digit string of a raw value of 8 digits, the Julian
\* conversion of any other raw value, and None when that conversion forms
\* no date.
C7_BirthdatePolicy ==
    (/\ loc.call \in {"oct", "fundus"}
     /\ loc.i >= 1
     /\ Len(chunks) >= loc.i
     /\ IsPatient(chunks[loc.i]))
        => self.birthdate = BirthdatePolicy(chunks[loc.i].payload.birthdate)

PatientsAt == {a \in DOMAIN chunks : IsPatient(chunks[a])}

\* C8 (SpecPatient): when read_oct_volume or read_fundus_image returns from
\* a file with several patient chunks, the five patient fields are those of the last
\* patient chunk in scan order.
C8_LastPatientWins ==
    (/\ \/ Completed("oct")
        \/ Completed("fundus")
     /\ Cardinality(PatientsAt) >= 2)
        => LET last == chunks[Max(PatientsAt)].payload
           IN  /\ self.sex = last.sex
               /\ self.first_name = last.first_name
               /\ self.surname = last.surname
               /\ self.patient_id = last.patient_id
               /\ self.birthdate \in
                     {BirthdatePolicy(last.birthdate),
                      julian_to_ymd((last.birthdate \div 64) - 14558805)}

(***************************************************************************)
(* SpecCalls: up to MaxCalls calls, of any of the three entry points and   *)
(* with different scale arguments, on a file with one series of one slice  *)
(* whose candidates are bscan metadata chunks and OCT image chunks.        *)
(***************************************************************************)
CallsEntries == {Entry(1, 1, 1, 0)}

CallsChunks ==
    {Chunk(BSCAN, 1, 0, 0, BscanPayload(t, y)) : t \in 1..2, y \in 1..2}
    \cup {Chunk(IMAGE, 1, 0, 1, ImagePayload(2, 2, TRUE))}

CallsCalls ==
    {[call |-> "oct", args |-> OctArgs(1, 5)],
     [call |-> "oct", args |-> OctArgs(2, 6)],
     [call |-> "fundus", args |-> FundusArgs(FALSE, 1)],
     [call |-> "meta", args |-> None]}

NextCalls ==
    \/ StartCall(CallsCalls, MaxCalls) /\ UNCHANGED <<pureVars, ctorVars>>
    \/ DirEntry(CallsEntries) /\ UNCHANGED <<pureVars, ctorVars>>
    \/ EndDir /\ UNCHANGED <<pureVars, ctorVars>>
    \/ Scan(CallsChunks) /\ UNCHANGED <<pureVars, ctorVars>>
    \/ Return /\ UNCHANGED <<pureVars, ctorVars>>

SpecCalls == Init /\ [][NextCalls]_vars

(***************************************************************************)
(* Properties of a sequence of calls (SpecCalls).                          *)
(***************************************************************************)
\* the bscan metadata chunks of the pass of the call that has returned
BscansAt ==
    {k \in DOMAIN chunks : chunks[k].hdr_ok /\ chunks[k].type = BSCAN}

\* the acquisition timestamp the bscan chunk at k gives
TimestampOf(k) ==
    [t |-> "datetime", ticks |-> chunks[k].payload.acquisitionTime]

\* the pixel spacing the bscan chunk at k gives under the call's arguments
SpacingOf(k) ==
    [t |-> "list",
     v |-> <<loc.args.scalex, chunks[k].payload.scaley,
             loc.args.slice_thickness>>]

\* C11 (SpecCalls): whatever calls came before, the acquisition timestamp
\* and the pixel_spacing of every volume a read_oct_volume call returns are
\* those of a bscan metadata chunk of that call's own pass, the spacing
\* with that call's scalex and slice_thickness, and are unknown when the
\* pass met no bscan metadata chunk.
C11_NothingCarriesOver ==
    Completed("oct") =>
        \A n \in DOMAIN result.value :
            /\ result.value[n].acquisition_date \in
                 IF BscansAt = {} THEN {None}
                 ELSE {TimestampOf(k) : k \in BscansAt}
            /\ result.value[n].pixel_spacing \in
                 IF BscansAt = {} THEN {None}
                 ELSE {SpacingOf(k) : k \in BscansAt}

(***************************************************************************)
(* Properties of the overflow volumes (Spec).                              *)
(***************************************************************************)
\* the series keys seen in the directory pass
DirectoryKeys == DictKeys(loc.volume_dict)

\* the candidates read so far that hold a decoded OCT image of series key vs
DecodedAt(vs) ==
    {a \in DOMAIN chunks :
        /\ a <= loc.i
        /\ HasImage(chunks[a], 1)
        /\ volume_string_of(chunks[a]) = vs}

\* the images of the candidates S in order of appearance
ImagesOf(S) == [k \in DOMAIN Sorted(S) |-> ImageOf(Sorted(S)[k])]

\* the positions in the returned list of the volumes of the keys K
PositionsOf(K) == {n \in DOMAIN result.value : result.value[n].volume_id \in K}

\* C12 (Spec): in read_oct_volume a decoded OCT image is in the overflow
\* list of its series key exactly when the key was never seen in the
\* directory pass; an overflow list holds its images in order of appearance;
\* and each is returned as a volume under its key, after the volumes of the
\* keys of the directory.
C12_OverflowExactlyUnseen ==
    (loc.call = "oct" /\ pc # "dir" /\ result.t # "raised") =>
        LET add == loc.volume_array_dict_additional
            ScanKeys == {volume_string_of(chunks[a]) : a \in DOMAIN chunks}
        IN  /\ \A vs \in ScanKeys :
                IF vs \in DirectoryKeys
                THEN ~DictHas(add, vs)
                ELSE DictGetOrNone(add, vs) =
                        (IF DecodedAt(vs) = {} THEN None
                         ELSE ImagesOf(DecodedAt(vs)))
            /\ Completed("oct") =>
                /\ \A vs \in ScanKeys \ DirectoryKeys :
                    ReturnedVolume(vs) = ImagesOf(DecodedAt(vs))
                /\ \A n \in PositionsOf(DirectoryKeys) :
                   \A m \in PositionsOf(ScanKeys \ DirectoryKeys) : n < m

(***************************************************************************)
(* SpecMeta: one call of read_all_metadata on a file whose candidates are  *)
(* chunks of the types its branches test, of a type none tests, and        *)
(* unparseable headers.  The per-series-key types come with every series   *)
(* key, the others with one.                                               *)
(***************************************************************************)
\* the structure parsed from the payload of a chunk of any other type
ParsedPayload == [t |-> "parsed"]

MetaEntries == {Entry(1, 0, 1, 0)}

MetaChunks ==
    {BadHeader,
     Chunk(UNKNOWN, 1, 0, 0, None),
     Chunk(PATIENT, 1, 0, 0, StreamError),
     Chunk(PATIENT, 1, 0, 0, PatientPayload(1, 0)),
     Chunk(BSCAN, 1, 0, 0, BscanPayload(1, 1)),
     Chunk(CONTOUR, 1, 0, 0, ContourPayload(1, 2, TRUE)),
     Chunk(IMAGE, 1, 0, 0, ImagePayload(2, 2, TRUE)),
     Chunk(IMAGE, 1, 0, 1, ImagePayload(2, 2, TRUE))}
    \cup {Chunk(type, 1, 0, 0, ParsedPayload) :
            type \in {11, 9001, 10025, 7, 39, 52, 1005}}
    \cup {Chunk(type, s, 0, 0, ParsedPayload) :
            type \in {9005, 9006, 9007, 9008}, s \in SeriesIds}

MetaCalls == {[call |-> "meta", args |-> None]}

NextMeta ==
    \/ StartCall(MetaCalls, 1) /\ UNCHANGED <<pureVars, ctorVars>>
    \/ DirEntry(MetaEntries) /\ UNCHANGED <<pureVars, ctorVars>>
    \/ EndDir /\ UNCHANGED <<pureVars, ctorVars>>
    \/ Scan(MetaChunks) /\ UNCHANGED <<pureVars, ctorVars>>
    \/ Return /\ UNCHANGED <<pureVars, ctorVars>>

SpecMeta == Init /\ [][NextMeta]_vars

(***************************************************************************)
(* Properties of read_all_metadata (SpecMeta).                             *)
(***************************************************************************)
\* the chunk types a category is named for
TypesOf(category) ==
    CASE category = "patient_data" -> {9}
      [] category = "bscan_data" -> {10004}
      [] category = "image_data" -> {1073741824}
      [] category = "fundus_data" -> {1073741824}
      [] category = "laterality_data" -> {11}
      [] category = "contour_data" -> {10019}
      [] category = "device_data" -> {9001}
      [] category = "examined_structure" -> {9005}
      [] category = "scan_pattern" -> {9006}
      [] category = "enface_modality" -> {9007}
      [] category = "oct_modality" -> {9008}
      [] category = "localizer" -> {10025}
      [] category = "eye_data" -> {7}
      [] category = "time_data" -> {39}
      [] category = "uid_data" -> {52, 54, 1000, 1001}
      [] category = "additional_device_data" -> {1005, 1006, 1007}

PerKeyCategories ==
    {"examined_structure", "scan_pattern", "enface_modality", "oct_modality"}

AccumulatingCategories == DOMAIN NewMetadata \ PerKeyCategories

\* the candidates whose header and payload decode, of a type of `category`
DecodedOf(category) ==
    {a \in DOMAIN chunks :
        /\ chunks[a].hdr_ok
        /\ chunks[a].payload.t # "StreamError"
        /\ chunks[a].type \in TypesOf(category)}

\* C13 as a predicate of the categories it is stated for: a per-series-key
\* category holds for every key the value of the first decoded chunk of its
\* type and key, an accumulating category one entry per decoded chunk of
\* its type, in scan order.
MetadataHolds(categories) ==
    Completed("meta") =>
        \A category \in categories :
            IF category \in PerKeyCategories
            THEN \A vs \in {volume_string_of(chunks[a]) : a \in DOMAIN chunks} :
                    LET S == {a \in DecodedOf(category) :
                                volume_string_of(chunks[a]) = vs}
                    IN  DictGetOrNone(result.value[category], vs) =
                            (IF S = {} THEN None ELSE TextOf(Min(S)))
            ELSE [k \in DOMAIN result.value[category] |->
                        result.value[category][k].at]
                    = Sorted(DecodedOf(category))

\* C13 (SpecMeta): when read_all_metadata returns, each per-series-key
\* category holds for every series key the value of the first chunk of that
\* type and key in scan order, and each accumulating category holds exactly
\* one entry, in scan order, for every decoded chunk of the type it is
\* named for, image chunks under image_data included.
C13_MetadataComplete == MetadataHolds(DOMAIN NewMetadata)

(***************************************************************************)
(* vol_intensity_transform, lines 678-693.  A float is NaN, an infinity,   *)
(* the largest 32-bit float, or a finite number counted in millionths.     *)
(* np.log is tabulated, rounded to the millionth, at the arguments the     *)
(* values of the model give it.                                            *)
(***************************************************************************)
NaN == [t |-> "nan"]

PosInf == [t |-> "inf"]

NegInf == [t |-> "-inf"]

\* np.finfo(np.float32).max
FLT_MAX == [t |-> "fltmax"]

Num(v) == [t |-> "num", v |-> v]

\* 1, in millionths
One == 1000000

\* 2.44e-04, in millionths
LogShift == 244

\* ln(x / 10^6) * 10^6 for x > 0
LnMicro(x) ==
    CASE x = 1 -> -13815511
      [] x = 144 -> -8845697
      [] x = 244 -> -8318342
      [] x = 245 -> -8314252
      [] x = 249 -> -8298058
      [] x = 1244 -> -6689423
      [] x = 500244 -> -692659
      [] x = 1000000 -> 0
      [] x = 1000244 -> 244

\* data <= 1
float_le_1(x) == x.t = "-inf" \/ (x.t = "num" /\ x.v <= One)

\* data + 2.44e-04
float_shift(x) == IF x.t = "num" THEN Num(x.v + LogShift) ELSE x

\* np.log: NaN below 0, -inf at 0
np_log(x) ==
    IF x.t \in {"nan", "-inf"} THEN NaN
    ELSE IF x.t = "inf" THEN PosInf
    ELSE IF x.v < 0 THEN NaN
    ELSE IF x.v = 0 THEN NegInf
    ELSE Num(LnMicro(x.v))

\* (new + 8.3) / 8.285
float_affine(x) ==
    IF x.t = "num" THEN Num(((x.v + 8300000) * 200) \div 1657) ELSE x

\* np.clip(data, 0, 1): NaN stays NaN
np_clip(x) ==
    IF x.t = "nan" THEN NaN
    ELSE IF x.t = "-inf" THEN Num(0)
    ELSE IF x.t \in {"inf", "fltmax"} THEN Num(One)
    ELSE IF x.v < 0 THEN Num(0)
    ELSE IF x.v > One THEN Num(One)
    ELSE x

\* the transform without the clip of line 692
vol_intensity_transform_unclipped(data) ==
    LET selection_0 == [k \in DOMAIN data |-> data[k] = FLT_MAX]
        selection_data == [k \in DOMAIN data |-> float_le_1(data[k])]
        new == [k \in DOMAIN data |->
                    float_affine(np_log(float_shift(data[k])))]
        logged == [k \in DOMAIN data |->
                    IF selection_data[k] THEN new[k] ELSE data[k]]
    IN  [k \in DOMAIN data |-> IF selection_0[k] THEN Num(0) ELSE logged[k]]

vol_intensity_transform(data) ==
    LET selection_0 == [k \in DOMAIN data |-> data[k] = FLT_MAX]
        selection_data == [k \in DOMAIN data |-> float_le_1(data[k])]
        new == [k \in DOMAIN data |->
                    float_affine(np_log(float_shift(data[k])))]
        logged == [k \in DOMAIN data |->
                    IF selection_data[k] THEN new[k] ELSE data[k]]
        zeroed == [k \in DOMAIN data |->
                    IF selection_0[k] THEN Num(0) ELSE logged[k]]
    IN  [k \in DOMAIN data |-> np_clip(zeroed[k])]

(***************************************************************************)
(* SpecTransform: vol_intensity_transform applied to an array of up to     *)
(* MaxPixels values.  The finite values lie around -2.44e-04, 0 and 1.     *)
(***************************************************************************)
MaxPixels == 2

PixelValues ==
    {NaN, PosInf, NegInf, FLT_MAX}
    \cup {Num(v) : v \in {-1000000, -245, -244, -243, -100, 0, 1, 5, 1000,
                          500000, 999756, 1000000, 1000001, 1500000, 2000000}}

PixelArrays == UNION {SeqsOfLen(PixelValues, n) : n \in 1..MaxPixels}

Transform ==
    /\ pcF = "call"
    /\ out' = vol_intensity_transform(arg)
    /\ pcF' = "done"
    /\ UNCHANGED <<arg, ctorVars, e2eVars>>

InitTransform ==
    arg \in PixelArrays /\ out = None /\ pcF = "call" /\ CtorIdle /\ E2EIdle

SpecTransform == InitTransform /\ [][Transform]_vars

(***************************************************************************)
(* Properties of the intensity transform (SpecTransform).                  *)
(***************************************************************************)
\* a value in [0, 1]
InUnitInterval(x) == x.t = "num" /\ x.v >= 0 /\ x.v <= 1000000

\* NaN, or a value below -2.44e-04
NaNOrBelowShift(x) ==
    x.t \in {"nan", "-inf"} \/ (x.t = "num" /\ x.v < -244)

\* C14 as stated: for every input array every returned value lies in
\* [0, 1], and the largest 32-bit float is returned as exactly 0.
C14_AsStated ==
    pcF = "done" =>
        \A k \in DOMAIN arg :
            /\ InUnitInterval(out[k])
            /\ arg[k] = FLT_MAX => out[k] = Num(0)

\* C14 amended: the value returned for an input value that is neither NaN
\* nor below -2.44e-04 lies in [0, 1], and is exactly 0 for the largest
\* 32-bit float; the value returned for NaN or a value below -2.44e-04 is
\* NaN.
C14_UnitIntervalUnlessNaN ==
    pcF = "done" =>
        /\ DOMAIN out = DOMAIN arg
        /\ \A k \in DOMAIN arg :
            IF NaNOrBelowShift(arg[k]) THEN out[k] = NaN
            ELSE /\ InUnitInterval(out[k])
                 /\ arg[k] = FLT_MAX => out[k] = Num(0)

\* the sentinel next to a value of the logarithmic range
C14_Witness ==
    /\ pcF = "done"
    /\ arg = <<FLT_MAX, Num(500000)>>
    /\ out = <<Num(0), Num(918206)>>

(***************************************************************************)
(* SpecDirectory: the directory pass of read_oct_volume, lines 96-127, as  *)
(* a function of the file's directory entries, applied to every list of    *)
(* up to MaxEntries entries.                                               *)
(***************************************************************************)
\* lines 99-113 over the entries from the k-th on
RECURSIVE directory_pass_from(_, _, _)
directory_pass_from(l, entries, k) ==
    IF k > Len(entries) THEN l
    ELSE directory_pass_from(dir_entry(l, entries[k]), entries, k + 1)

\* lines 96-127: the locals of read_oct_volume when the scan loop starts
directory_pass(entries) ==
    LET l == directory_pass_from(NewLoc("oct", OctArgs(1, 5)), entries, 1)
    IN  [l EXCEPT !.volume_array_dict = alloc_volumes(l.volume_dict)]

DirectoryLists == UNION {SeqsOfLen(ImageEntries, n) : n \in 0..MaxEntries}

DirectoryPass ==
    /\ pcF = "call"
    /\ out' = directory_pass(arg)
    /\ pcF' = "done"
    /\ UNCHANGED <<arg, ctorVars, e2eVars>>

InitDirectory ==
    arg \in DirectoryLists /\ out = None /\ pcF = "call" /\ CtorIdle /\ E2EIdle

SpecDirectory == InitDirectory /\ [][DirectoryPass]_vars

(***************************************************************************)
(* Properties of the directory pass (SpecDirectory).                       *)
(***************************************************************************)
\* the slice ids of the directory entries of series key vs
SliceIdsOf(vs) ==
    {arg[k].slice_id : k \in {j \in DOMAIN arg : volume_string_of(arg[j]) = vs}}

\* C15 (SpecDirectory): after the directory pass of read_oct_volume every
\* series key of a directory entry has a placeholder sequence of length
\* max_index + 1, max_index being the largest halved slice_id over the
\* entries of the key, for a largest slice index of 0 too.
C15_PlaceholderPerKey ==
    pcF = "done" =>
        \A vs \in {volume_string_of(arg[k]) : k \in DOMAIN arg} :
            /\ DictHas(out.volume_array_dict, vs)
            /\ DictGet(out.volume_array_dict, vs)
                  = Repeat(Placeholder, (Max(SliceIdsOf(vs)) \div 2) + 1)

(***************************************************************************)
(* SpecContour: one call of read_oct_volume on a file whose directory      *)
(* names series 1 only and whose candidates are contour chunks of either   *)
(* series (readable, of width 0, or unreadable) and OCT image chunks.      *)
(***************************************************************************)
MaxContourId == 2

ContourEntries == {Entry(1, sl, 1, 0) : sl \in SliceIds}

ContourChunks ==
    {Chunk(CONTOUR, s, sl, 0, ContourPayload(id, 2, TRUE)) :
        s \in SeriesIds, sl \in SliceIds, id \in 1..MaxContourId}
    \cup {Chunk(CONTOUR, 1, 0, 0, ContourPayload(1, 0, TRUE)),
          Chunk(CONTOUR, 1, 0, 0, ContourPayload(1, 2, FALSE))}
    \cup {Chunk(IMAGE, s, 0, 1, ImagePayload(2, 2, TRUE)) : s \in SeriesIds}

ContourCalls == {[call |-> "oct", args |-> OctArgs(1, 5)]}

NextContour ==
    \/ StartCall(ContourCalls, 1) /\ UNCHANGED <<pureVars, ctorVars>>
    \/ DirEntry(ContourEntries) /\ UNCHANGED <<pureVars, ctorVars>>
    \/ EndDir /\ UNCHANGED <<pureVars, ctorVars>>
    \/ Scan(ContourChunks) /\ UNCHANGED <<pureVars, ctorVars>>
    \/ Return /\ UNCHANGED <<pureVars, ctorVars>>

SpecContour == Init /\ [][NextContour]_vars

(***************************************************************************)
(* Properties of the contour assembly (SpecContour).                       *)
(***************************************************************************)
\* the candidates holding a decoded contour array
ContoursAt ==
    {a \in DOMAIN chunks :
        /\ chunks[a].hdr_ok
        /\ chunks[a].type = CONTOUR
        /\ chunks[a].payload.t = "contour"
        /\ chunks[a].payload.width > 0
        /\ chunks[a].payload.readable}

\* those of them with the series key and the contour id of the one at a
SameContourAs(a) ==
    {b \in ContoursAt :
        /\ volume_string_of(chunks[b]) = volume_string_of(chunks[a])
        /\ chunks[b].payload.id = chunks[a].payload.id}

\* the length the list of the contour at a is to have
ContourLength(a) ==
    IF volume_string_of(chunks[a]) \in DirectoryKeys
    THEN (DictGet(loc.volume_dict, volume_string_of(chunks[a])) \div 2) + 1
    ELSE Cardinality({chunks[b].slice_id \div 2 : b \in SameContourAs(a)})

\* the call of read_oct_volume has ended, by a return or by an exception
Ended(call) == pc = "idle" /\ loc.call = call /\ result # None

\* C16 (SpecContour): read_oct_volume assembles the contours without
\* failure; the list of a series key and contour name has length
\* max_index + 1 when the key is in the slice-count table of the directory
\* and otherwise the number of slices observed for that contour; every
\* decoded contour array sits at position slice_id/2 of its list; and the
\* lists of a key are the contours of the volume returned for it.
C16_ContoursAligned ==
    Ended("oct") =>
        /\ result.t = "returned"
        /\ LET contour_data ==
                 assemble_contours([t |-> "ok", dict |-> <<>>],
                                   loc.contour_dict, loc.volume_dict, 1).dict
           IN  /\ \A a \in ContoursAt :
                    LET vs == volume_string_of(chunks[a])
                        name == "contour" \o ToString(chunks[a].payload.id)
                        idx == chunks[a].slice_id \div 2
                        last == Max({b \in SameContourAs(a) :
                                        chunks[b].slice_id \div 2 = idx})
                    IN  /\ DictHas(contour_data, vs)
                        /\ DictHas(DictGet(contour_data, vs), name)
                        /\ LET lst == DictGet(DictGet(contour_data, vs), name)
                           IN  /\ Len(lst) = ContourLength(a)
                               /\ idx + 1 <= Len(lst)
                               /\ lst[idx + 1] = ContourOf(last)
               /\ \A n \in DOMAIN result.value :
                    result.value[n].contours =
                        DictGetOrNone(contour_data, result.value[n].volume_id)

(***************************************************************************)
(* SpecLaterality: one call of read_oct_volume or read_fundus_image on a   *)
(* file of several series whose candidates are scan preamble chunks (with  *)
(* laterality R, L, another value, or unparseable) and image chunks.       *)
(***************************************************************************)
LateralityEntries == {Entry(s, 1, 1, 0) : s \in SeriesIds}

LateralityChunks ==
    {Chunk(PREAMBLE, s, 0, 0, PrePayload(lat)) :
        s \in SeriesIds, lat \in {"R", "L", "?"}}
    \cup {Chunk(PREAMBLE, s, 0, 0, StreamError) : s \in SeriesIds}
    \cup {Chunk(IMAGE, s, 0, ind, ImagePayload(2, 2, TRUE)) :
            s \in SeriesIds, ind \in {0, 1}}

LateralityCalls ==
    {[call |-> "oct", args |-> OctArgs(1, 5)],
     [call |-> "fundus", args |-> FundusArgs(FALSE, 1)]}

NextLaterality ==
    \/ StartCall(LateralityCalls, 1) /\ UNCHANGED <<pureVars, ctorVars>>
    \/ DirEntry(LateralityEntries) /\ UNCHANGED <<pureVars, ctorVars>>
    \/ EndDir /\ UNCHANGED <<pureVars, ctorVars>>
    \/ Scan(LateralityChunks) /\ UNCHANGED <<pureVars, ctorVars>>
    \/ Return /\ UNCHANGED <<pureVars, ctorVars>>

SpecLaterality == Init /\ [][NextLaterality]_vars

(***************************************************************************)
(* Properties of the laterality (SpecLaterality).                          *)
(***************************************************************************)
\* the scan preamble chunks of series key vs that decode to R or L
LateralityAt(vs) ==
    {a \in DOMAIN chunks :
        /\ chunks[a].hdr_ok
        /\ chunks[a].type = PREAMBLE
        /\ volume_string_of(chunks[a]) = vs
        /\ chunks[a].payload.t = "pre_data"
        /\ chunks[a].payload.laterality \in {"R", "L"}}

\* the laterality of series key vs: that of the first of them, or none
LateralityOf(vs) ==
    IF LateralityAt(vs) = {} THEN None
    ELSE Str(chunks[Min(LateralityAt(vs))].payload.laterality)

\* C17 (SpecLaterality): the laterality of every volume read_oct_volume
\* returns and of every image read_fundus_image returns is the R or L of
\* the first scan preamble chunk of its series key that decodes to R or L,
\* and none when no scan preamble chunk of its key does, whatever scan
\* preamble chunks of other series were scanned before.
C17_LateralityOfOwnSeries ==
    /\ Completed("oct") =>
        \A n \in DOMAIN result.value :
            result.value[n].laterality = LateralityOf(result.value[n].volume_id)
    /\ Completed("fundus") =>
        \A n \in DOMAIN result.value :
            result.value[n].laterality = LateralityOf(result.value[n].image_id)

====
